---- MODULE Spec2Model ----
(***************************************************************************)
(* Failover orchestration of the Nginx Proxy Manager Switcher:             *)
(* HealthChecker.checkHealth, NginxConfigUpdater.updateProxyConfig,        *)
(* DatabaseManager and the ServiceManager monitoring cycles.               *)
(***************************************************************************)
EXTENDS Integers, Sequences, FiniteSets, TLC

VARIABLES
  config,         \* config.services: service -> ServiceConfig
  phase,          \* ServiceManager: "constructed", "initialized", or initialize() threw:
                  \* "invalid" (nginx self-test) or "failed" (store query); the process exited
  isRunning,      \* ServiceManager.isRunning
  serviceStates,  \* ServiceManager.serviceStates: service -> state
  timers,         \* ServiceManager.timers: service -> chain of the stored handle
  lastCycle,      \* history: service -> the update failure of its last cycle
  task,           \* service -> chain -> the chain's probe, cycle or timer
  starts,         \* the start() calls: call -> "none", "awaiting", "done", "rejected"
  db,             \* table proxy_host: id -> row
  dbOpen,         \* the sqlite connection is open
  initialBackups, \* backup_dir: service -> rows backed up by backupInitialProxyHost, in call order
  files,          \* nginx_conf_dir: file key -> [exists, content]
  backups,        \* nginx_conf_dir: file key -> contents of <key>.conf.backup.*
  failedProbes,   \* history: service -> failed probes since the last success
  event,          \* history: the probe or cycle the last step completed
  hcCall,         \* a direct call of HealthChecker.checkHealth (SpecHC)
  lastPatch,      \* history: the last direct call of updateProxyConfig (SpecNginx)
  snap,           \* snapshot_dir and the last SnapshotManager call (SpecSnap)
  nginxCmd,       \* NginxConfigUpdater: nginxRefreshCmd and nginxTestCmd, as words
  dbCall          \* history: the last direct call of the DatabaseManager (SpecDb)

vars == <<config, phase, isRunning, serviceStates, timers, lastCycle, task, starts, db,
          dbOpen, initialBackups, files, backups, failedProbes, event,
          hcCall, lastPatch, snap, nginxCmd, dbCall>>

(***************************************************************************)
(* JavaScript values                                                       *)
(***************************************************************************)
Undefined == "undefined"
Null == "null"

Max(a, b) == IF a >= b THEN a ELSE b
Min(a, b) == IF a <= b THEN a ELSE b

(***************************************************************************)
(* Bounds of the model                                                     *)
(***************************************************************************)
MaxRetriesArg == 11   \* largest retries argument handed to checkHealth
MaxTokens == 2        \* longest config file, in patched idioms
MaxStarts == 2        \* start() calls of one run
MaxFailures == 2      \* cap of consecutiveFailures
MaxPatches == 1       \* direct calls of updateProxyConfig in one run
MaxSnapshots == 3     \* createSnapshot calls in one run
MaxParts == 4         \* words of a reload command
MaxDbCalls == 2       \* direct DatabaseManager calls in one run
MaxRuns == 2          \* runs of the process over one store and directory

(***************************************************************************)
(* NginxConfigUpdater: the text of a proxy host file.                      *)
(* A file is a sequence of the idioms the regular expressions look at:     *)
(*   set_server   set $server "<h>";                                       *)
(*   set_port     set $port <p>;                                           *)
(*   server_semi  server <h>:<p>;                                          *)
(*   server_bare  server <h>:<p>   followed by anything but a digit or ;   *)
(*   set_scheme   set $forward_scheme <h>;   (h holds the scheme word)     *)
(* Ports are numbers; the regular expressions see their decimal text.      *)
(***************************************************************************)
Tok(k, h, p) == [k |-> k, h |-> h, p |-> p]

RECURSIVE Pow10(_)
Pow10(n) == IF n = 0 THEN 1 ELSE 10 * Pow10(n - 1)

\* The number of digits that follow the decimal text of p in the decimal
\* text of q when q's text starts with p's text; -1 when it does not.
RECURSIVE DigitsAfter(_, _)
DigitsAfter(q, p) ==
  IF q = p THEN 0
  ELSE IF q < p THEN -1
  ELSE LET r == DigitsAfter(q \div 10, p) IN IF r = -1 THEN -1 ELSE r + 1

\* serverSetPattern: (set\s+\$server\s*")oldHost("\s*;) -> $1newHost$2
ReplaceServerSet(t, oldHost, newHost) ==
  IF t.k = "set_server" /\ t.h = oldHost THEN [t EXCEPT !.h = newHost] ELSE t

\* portSetPattern: (set\s+\$port\s*)oldPort(\s*;) -> $1newPort$2
ReplacePortSet(t, oldPort, newPort) ==
  IF t.k = "set_port" /\ t.p = oldPort THEN [t EXCEPT !.p = newPort] ELSE t

\* serverPattern: server\s+oldHost:oldPort; -> server newHost:newPort;
ReplaceServerLine(t, oldHost, newHost, oldPort, newPort) ==
  IF t.k = "server_semi" /\ t.h = oldHost /\ t.p = oldPort
  THEN [t EXCEPT !.h = newHost, !.p = newPort]
  ELSE t

\* hostPattern: server\s+oldHost:oldPort -> server newHost:newPort
\* No terminator follows the port in the pattern: the digits of oldPort
\* match at the start of a longer port and the rest of it stays behind.
ReplaceHostPort(t, oldHost, newHost, oldPort, newPort) ==
  IF /\ t.k \in {"server_semi", "server_bare"}
     /\ t.h = oldHost
     /\ DigitsAfter(t.p, oldPort) >= 0
  THEN LET n == DigitsAfter(t.p, oldPort)
       IN [t EXCEPT !.h = newHost,
                    !.p = newPort * Pow10(n) + (t.p % Pow10(n))]
  ELSE t

ReplaceToken(t, oldHost, newHost, oldPort, newPort) ==
  ReplaceHostPort(
    ReplaceServerLine(
      ReplacePortSet(ReplaceServerSet(t, oldHost, newHost), oldPort, newPort),
      oldHost, newHost, oldPort, newPort),
    oldHost, newHost, oldPort, newPort)

\* The four global replacements, each over the whole text.
replaceUpstreamConfig(content, oldHost, newHost, oldPort, newPort) ==
  [i \in 1..Len(content) |->
     ReplaceToken(content[i], oldHost, newHost, oldPort, newPort)]

NoFileEntry == [exists |-> FALSE, content |-> <<>>]
FileEntry(content) == [exists |-> TRUE, content |-> content]

\* An updateProxyConfig that reports failure when the replacements changed
\* nothing.
updateProxyConfig_FailsWhenUnchanged(fs, bk, proxyId, oldHost, newHost, oldPort, newPort, io) ==
  IF ~fs[proxyId].exists
  THEN [ok |-> FALSE, files |-> fs, backups |-> bk]
  ELSE IF io = "backup"
  THEN [ok |-> FALSE, files |-> fs, backups |-> bk]
  ELSE LET configContent == fs[proxyId].content
           bk2 == [bk EXCEPT ![proxyId] = @ \cup {configContent}]
           updatedContent ==
             replaceUpstreamConfig(configContent, oldHost, newHost, oldPort, newPort)
       IN IF io = "write" \/ updatedContent = configContent
          THEN [ok |-> FALSE, files |-> fs, backups |-> bk2]
          ELSE [ok |-> TRUE,
                files |-> [fs EXCEPT ![proxyId] = FileEntry(updatedContent)],
                backups |-> bk2]

\* updateProxyConfig(proxyId, oldHost, newHost, oldPort, newPort): the
\* result and the directory afterwards.  io names the first file system
\* call that throws: "ok" (none), "backup" (the backup write) or "write"
\* (the write of the updated file).
updateProxyConfig(fs, bk, proxyId, oldHost, newHost, oldPort, newPort, io) ==
  IF ~fs[proxyId].exists
  THEN [ok |-> FALSE, files |-> fs, backups |-> bk]
  ELSE IF io = "backup"
  THEN [ok |-> FALSE, files |-> fs, backups |-> bk]
  ELSE LET configContent == fs[proxyId].content
           bk2 == [bk EXCEPT ![proxyId] = @ \cup {configContent}]
           updatedContent ==
             replaceUpstreamConfig(configContent, oldHost, newHost, oldPort, newPort)
       IN IF io = "write"
          THEN [ok |-> FALSE, files |-> fs, backups |-> bk2]
          ELSE [ok |-> TRUE,
                files |-> [fs EXCEPT ![proxyId] = FileEntry(updatedContent)],
                backups |-> bk2]

(***************************************************************************)
(* HealthChecker.checkHealth                                               *)
(* The retries argument is <<>> when the caller passes none, <<n>> else.   *)
(***************************************************************************)
Outcomes == {"2xx", "ECONNREFUSED", "ETIMEDOUT", "ENOTFOUND", "HTTP", "other"}

ErrorMessage(o) ==
  CASE o = "ECONNREFUSED" -> "Connection refused"
    [] o = "ETIMEDOUT" -> "Connection timeout"
    [] o = "ENOTFOUND" -> "Host not found"
    [] o = "HTTP" -> "HTTP status"
    [] OTHER -> "Unknown error"

\* retries = 3 (the default parameter), then Math.max(1, retries)
MaxRetriesOf(retries) ==
  Max(1, IF retries = <<>> THEN 3 ELSE retries[1])

IdleCall ==
  [pc |-> "idle", retries |-> <<>>, maxRetries |-> 0, attempt |-> 0,
   issued |-> 0, slept |-> 0, firstOk |-> 0,
   success |-> FALSE, attempts |-> 0, error |-> Null]

\* Entry of checkHealth up to the first await: attempt 1 is issued.
HCStart(retries) ==
  [IdleCall EXCEPT !.pc = "get", !.retries = retries,
                   !.maxRetries = MaxRetriesOf(retries),
                   !.attempt = 1, !.issued = 1]

\* Variants of the response handling, used to test the properties below.
\* A 2xx response does not end the loop while attempts remain.
HCOnResponse_KeepsTrying(c, o) ==
  IF c.attempt < c.maxRetries
  THEN [c EXCEPT !.pc = "sleep", !.slept = @ + 1,
                 !.firstOk = IF o = "2xx" /\ @ = 0 THEN c.attempt ELSE @]
  ELSE [c EXCEPT !.pc = "done", !.success = (o = "2xx"), !.attempts = c.attempt,
                 !.firstOk = IF o = "2xx" /\ @ = 0 THEN c.attempt ELSE @]

\* The retry delay is waited after the last attempt too.
HCOnResponse_SleepsAfterLast(c, o) ==
  IF o = "2xx"
  THEN [c EXCEPT !.pc = "done", !.success = TRUE, !.attempts = c.attempt,
                 !.firstOk = IF @ = 0 THEN c.attempt ELSE @]
  ELSE IF c.attempt <= c.maxRetries
  THEN [c EXCEPT !.pc = "sleep", !.slept = @ + 1, !.error = ErrorMessage(o)]
  ELSE [c EXCEPT !.pc = "done", !.success = FALSE, !.attempts = c.attempt,
                 !.error = ErrorMessage(o)]

\* The response (or error) of the attempt in flight arrives.
HCOnResponse(c, o) ==
  IF o = "2xx"
  THEN [c EXCEPT !.pc = "done", !.success = TRUE, !.attempts = c.attempt,
                 !.error = Null,
                 !.firstOk = IF @ = 0 THEN c.attempt ELSE @]
  ELSE IF c.attempt < c.maxRetries
  THEN [c EXCEPT !.pc = "sleep", !.slept = @ + 1, !.error = ErrorMessage(o)]
  ELSE [c EXCEPT !.pc = "done", !.success = FALSE, !.attempts = c.attempt,
                 !.error = ErrorMessage(o)]

\* sleep(1000) is over: continue, attempt++, the next attempt is issued.
HCOnWake(c) ==
  [c EXCEPT !.pc = "get", !.attempt = @ + 1, !.issued = @ + 1]



(***************************************************************************)
(* Configuration (config.services) and the proxy_host table                *)
(***************************************************************************)
AllServices == {"sso", "api"}
AllServiceOrder == <<"sso", "api">>
Services == DOMAIN config
\* Object.entries(this.config.services)
ServiceOrder == SelectSeq(AllServiceOrder, LAMBDA s : s \in Services)
Chains == 1..MaxStarts               \* chain k: the probes start() call k began
RecordIds == {"1", "2"}
IdOrder == <<"1", "2">>              \* rowid order of proxy_host
FileKeys == RecordIds \cup AllServices  \* <key>.conf

Target(h, p, s) == [host |-> h, port |-> p, scheme |-> s]
NoTarget == Target(Undefined, 0, Undefined)   \* no if_success, null originalConfig

\* The services a run may be configured with.
ServiceConfigs ==
  [s \in AllServices |->
     IF s = "sso"
     THEN [domain |-> "sso.example.com", retries |-> <<>>,
           interval |-> "2s", error_delay |-> "5s",
           if_success |-> NoTarget,
           if_failed |-> Target("10.0.0.2", 8000, Undefined)]
     ELSE [domain |-> "api.example.com", retries |-> <<1>>,
           interval |-> "30s", error_delay |-> "10s",
           if_success |-> Target("10.0.1.3", 3000, "https"),
           if_failed |-> Target("10.0.1.2", 8080, "http")]]

\* start() calls of one run: MaxStarts with one service, one with more.
StartsAllowed == IF Cardinality(Services) = 1 THEN MaxStarts ELSE 1

\* config.retries || 3
RetriesOr3(r) == IF r = <<>> \/ r[1] = 0 THEN 3 ELSE r[1]

NoRow ==
  [present |-> FALSE, domain_names |-> <<>>, forward_host |-> "",
   forward_port |-> 0, forward_scheme |-> "", is_deleted |-> 0]
Row(names, h, p, s) ==
  [present |-> TRUE, domain_names |-> names, forward_host |-> h,
   forward_port |-> p, forward_scheme |-> s, is_deleted |-> 0]

\* The text of column domain_names, a JSON array: [ "a" , "b" ]
RECURSIVE JsonItems(_)
JsonItems(names) ==
  IF Len(names) = 0 THEN <<>>
  ELSE IF Len(names) = 1 THEN <<names[1]>>
  ELSE <<names[1], ",">> \o JsonItems(Tail(names))
JsonText(names) == <<"[">> \o JsonItems(names) \o <<"]">>

\* txt LIKE %pat%
Like(txt, pat) ==
  \E i \in 0..(Len(txt) - Len(pat)) : SubSeq(txt, i + 1, i + Len(pat)) = pat

\* findProxyHostByDomain: WHERE domain_names LIKE '%["<domain>"]%' AND
\* is_deleted = 0, first row
MatchingIds(d, domain) ==
  {id \in RecordIds :
     /\ d[id].present
     /\ Like(JsonText(d[id].domain_names), <<"[", domain, "]">>)
     /\ d[id].is_deleted = 0}
\* A findProxyHostByDomain that takes the first row of the table, whatever
\* its domains.
findProxyHostByDomain_AnyDomain(d, domain) ==
  LET m == {id \in RecordIds : d[id].present}
  IN IF m = {} THEN ""
     ELSE IdOrder[CHOOSE i \in 1..Len(IdOrder) :
                    IdOrder[i] \in m /\ \A j \in 1..(i - 1) : IdOrder[j] \notin m]

findProxyHostByDomain(d, domain) ==
  LET m == MatchingIds(d, domain)
  IN IF m = {} THEN ""
     ELSE IdOrder[CHOOSE i \in 1..Len(IdOrder) :
                    IdOrder[i] \in m /\ \A j \in 1..(i - 1) : IdOrder[j] \notin m]

\* An updateProxyHost that writes forward_scheme whether or not a scheme is
\* passed.
updateProxyHost_AlwaysScheme(d, id, newHost, newPort, newScheme) ==
  IF id \in RecordIds /\ d[id].present
  THEN [d EXCEPT ![id].forward_host = newHost,
                 ![id].forward_port = newPort,
                 ![id].forward_scheme = newScheme]
  ELSE d

\* updateProxyHost: UPDATE proxy_host SET forward_host, forward_port
\* [, forward_scheme] WHERE id = ?   (the scheme only when it is truthy)
updateProxyHost(d, id, newHost, newPort, newScheme) ==
  IF id \in RecordIds /\ d[id].present
  THEN [d EXCEPT ![id].forward_host = newHost,
                 ![id].forward_port = newPort,
                 ![id].forward_scheme =
                     IF newScheme \in {Undefined, Null, ""} THEN @ ELSE newScheme]
  ELSE d

\* this.changes in the callback of db.run: the callback is an arrow function,
\* so this is the DatabaseManager, which has no property changes (<<>>
\* stands for undefined, <<n>> for the number n).
ThisChanges == <<>>

\* What updateProxyHost resolves to when the statement ran without error:
\* false when this.changes === 0, true otherwise.
updateProxyHostResolves(changes) == IF changes = <<0>> THEN FALSE ELSE TRUE

\* The direct calls of the DatabaseManager: none yet.
NoDbCall ==
  [n |-> 0, op |-> "none", id |-> "", domain |-> "", scheme |-> "",
   before |-> [id \in RecordIds |-> NoRow], found |-> "", ok |-> FALSE]

\* The file Nginx Proxy Manager writes for a row.
NpmFile(row) ==
  <<Tok("set_scheme", row.forward_scheme, 0),
    Tok("set_server", row.forward_host, 0),
    Tok("set_port", "", row.forward_port)>>

(***************************************************************************)
(* ServiceManager state                                                    *)
(***************************************************************************)
NoState ==
  [present |-> FALSE, originalConfig |-> NoTarget, isHealthy |-> FALSE,
   consecutiveFailures |-> 0,
   currentHost |-> Null, currentPort |-> 0, currentScheme |-> Null]

\* a || b on hosts, ports and schemes
OrElse(a, b) == IF a \in {Null, Undefined, ""} THEN b ELSE a
OrElsePort(a, b) == IF a = 0 THEN b ELSE a

Applied(st) == Target(st.currentHost, st.currentPort, st.currentScheme)

\* history: no update failure of the service's earlier cycles is on record
NoPrev ==
  [end |-> "none", probed |-> "none", old |-> NoTarget, new |-> NoTarget]
\* history of earlier cycles is not kept (every specification but SpecCycles)
NoHistory == [NoPrev EXCEPT !.end = "off"]

\* One chain of a service: its probe or cycle in flight (pc "probe", "find",
\* "dbupd", "reload", "idb1", "idb2"), its armed timer ("timer") or nothing.
\* probed .. reload are the history of the cycle in flight.
NoTask ==
  [pc |-> "none", kind |-> "none", hc |-> IdleCall,
   pid |-> "", new |-> NoTarget, dbClosed |-> FALSE,
   probed |-> "none", applied0 |-> NoTarget, desired |-> NoTarget,
   found |-> "none", patch |-> "none", recUpd |-> "none",
   reloads |-> 0, reload |-> "none", prev |-> NoPrev]

\* What history keeps of cycle t1 for the later cycles of its service: a
\* patch failure or a record update failure after the patch, with the
\* cycle's probe result and transition, or a reload failure after both
\* writes with the cycle's probe result.  A reload
\* failure stays on record (last) over later cycles with the same probe
\* result that attempt no update.
CarryOver(t1, last) ==
  LET this == [end |-> "none", probed |-> t1.probed,
               old |-> t1.applied0, new |-> t1.new]
  IN IF last = NoHistory THEN NoHistory
     ELSE IF t1.patch = "fail" THEN [this EXCEPT !.end = "patchfail"]
     ELSE IF t1.patch = "ok" /\ t1.recUpd = "fail"
     THEN [this EXCEPT !.end = "recfail"]
     ELSE IF t1.patch = "ok" /\ t1.recUpd = "ok" /\ t1.reload = "fail"
     THEN [NoPrev EXCEPT !.end = "reloadfail", !.probed = t1.probed]
     ELSE IF /\ t1.found = "none"
             /\ last.end = "reloadfail"
             /\ last.probed = t1.probed
     THEN last
     ELSE NoPrev

\* What the log of a cycle keeps of the history it began with: the patch
\* and reload failures (a record update failure is read in lastCycle by the
\* step that ends the next cycle).
LogOf(last) == IF last.end = "recfail" THEN NoPrev ELSE last

InFlightPcs == {"probe", "find", "dbupd", "reload", "idb1", "idb2"}

\* The history of the last step: the checkHealth call it completed (hc) and
\* the cycle or initial probe it completed (ended, log, armed, delay).
NoEvent ==
  [s |-> "", k |-> 0, hc |-> IdleCall, ended |-> FALSE, log |-> NoTask,
   armed |-> FALSE, delay |-> "none"]

\* checkAndUpdateService / performInitialHealthCheck up to the first await
NewProbe(s, kind) ==
  [NoTask EXCEPT !.pc = "probe", !.kind = kind,
                 !.hc = HCStart(<<RetriesOr3(config[s].retries)>>)]

\* A checkService that returns without a cycle.
startServiceMonitoring_Idle(s, running) == [NoTask EXCEPT !.pc = "ended"]

\* checkService: if (!this.isRunning) return; else the cycle begins
startServiceMonitoring(s, running) ==
  IF running THEN NewProbe(s, "cycle") ELSE [NoTask EXCEPT !.pc = "ended"]

\* needsConfigurationUpdate
needsConfigurationUpdate(st, targetConfig) ==
  \/ st.currentHost # targetConfig.host
  \/ st.currentPort # targetConfig.port
  \/ st.currentScheme # targetConfig.scheme

\* A scheduleNextCheck that never sets the timer.
scheduleNextCheck_GivesUp(running) == [NoTask EXCEPT !.pc = "ended"]

\* scheduleNextCheck: if (!this.isRunning) return; else setTimeout
scheduleNextCheck(running) ==
  IF running THEN [NoTask EXCEPT !.pc = "timer"] ELSE [NoTask EXCEPT !.pc = "ended"]

\* the delay of scheduleNextCheck
NextDelay(st) == IF st.isHealthy THEN "interval" ELSE "error_delay"

Bump(n) == Min(n + 1, MaxFailures + 1)

ProbeOutcomes == {"2xx", "ECONNREFUSED"}
IoOutcomes == {"ok", "backup", "write"}
DbOutcomes == {"ok", "reject"}

OriginalOf(row) == Target(row.forward_host, row.forward_port, row.forward_scheme)

(***************************************************************************)
(* initialize(): connect, testNginxConfig, initializeServiceStates         *)
(***************************************************************************)
\* A backupInitialProxyHost that writes nothing.
backupInitialProxyHost_Skipped(ibk, serviceName, proxyHost) == ibk

\* backupInitialProxyHost(serviceName, proxyHost): one more backup of the
\* row it is given, under the service's name (a new timestamped file).
backupInitialProxyHost(ibk, serviceName, proxyHost) ==
  [ibk EXCEPT ![serviceName] = Append(@, proxyHost)]

\* The loop of initializeServiceStates over the first n services.
RECURSIVE initializeServiceStates(_, _)
initializeServiceStates(n, acc) ==
  IF n = 0 THEN acc
  ELSE
    LET a == initializeServiceStates(n - 1, acc)
        s == ServiceOrder[n]
        id == findProxyHostByDomain(a.db, config[s].domain)
    IN IF id = ""
       THEN [a EXCEPT !.states[s] = [NoState EXCEPT !.present = TRUE]]
       ELSE
         LET proxyHost == a.db[id]
             originalConfig == OriginalOf(proxyHost)
             \* restoreOriginalConfiguration(serviceName, originalConfig)
             d2 == updateProxyHost(a.db, s, originalConfig.host,
                                   originalConfig.port, originalConfig.scheme)
             r == updateProxyConfig(a.files, a.backups, s,
                                    originalConfig.host, originalConfig.port,
                                    originalConfig.scheme, originalConfig.host, "ok")
         IN [db |-> d2, files |-> r.files, backups |-> r.backups,
             ibk |-> backupInitialProxyHost(a.ibk, s, proxyHost),
             states |-> [a.states EXCEPT ![s] =
                [NoState EXCEPT
                   !.present = TRUE,
                   !.originalConfig = originalConfig,
                   !.currentHost = OrElse(originalConfig.host, Null),
                   !.currentPort = originalConfig.port,
                   !.currentScheme = OrElse(originalConfig.scheme, Null)]]]

\* An initialize() that goes on to initializeServiceStates whatever
\* testNginxConfig returned.
Initialize_IgnoresTest(nginxConfigValid, failAt) ==
  /\ phase = "constructed"
  /\ dbOpen' = TRUE
  /\ LET n == IF failAt = 0 THEN Len(ServiceOrder) ELSE failAt - 1
         a == initializeServiceStates(n,
                [db |-> db, files |-> files, backups |-> backups,
                 ibk |-> initialBackups, states |-> serviceStates])
     IN /\ phase' = IF ~nginxConfigValid THEN "invalid"
                    ELSE IF failAt = 0 THEN "initialized" ELSE "failed"
        /\ serviceStates' = a.states
        /\ db' = a.db
        /\ files' = a.files
        /\ backups' = a.backups
        /\ initialBackups' = a.ibk
  /\ event' = NoEvent
  /\ UNCHANGED <<config, isRunning, timers, lastCycle, task, starts, failedProbes,
                 hcCall, lastPatch, snap, nginxCmd, dbCall>>

\* failAt = 0: no query rejects; failAt = n: the first query for service n does.
Initialize(nginxConfigValid, failAt) ==
  /\ phase = "constructed"
  /\ dbOpen' = TRUE
  /\ IF ~nginxConfigValid
     THEN \* throw new Error('Nginx configuration is invalid')
          /\ phase' = "invalid"
          /\ UNCHANGED <<serviceStates, db, files, backups, initialBackups>>
     ELSE
       LET n == IF failAt = 0 THEN Len(ServiceOrder) ELSE failAt - 1
           a == initializeServiceStates(n,
                  [db |-> db, files |-> files, backups |-> backups,
                   ibk |-> initialBackups, states |-> serviceStates])
       IN /\ phase' = IF failAt = 0 THEN "initialized" ELSE "failed"
          /\ serviceStates' = a.states
          /\ db' = a.db
          /\ files' = a.files
          /\ backups' = a.backups
          /\ initialBackups' = a.ibk
  /\ event' = NoEvent
  /\ UNCHANGED <<config, isRunning, timers, lastCycle, task, starts, failedProbes,
                 hcCall, lastPatch, snap,
                 nginxCmd, dbCall>>

(***************************************************************************)
(* start(), stop(), shutdown()                                             *)
(***************************************************************************)
Start ==
  /\ phase = "initialized"
  /\ ~isRunning
  /\ \E k \in 1..StartsAllowed :
       /\ starts[k] = "none"
       /\ \A j \in 1..(k - 1) : starts[j] # "none"
       /\ LET probed == {s \in Services : serviceStates[s].originalConfig # NoTarget}
          IN IF probed = {}
             THEN /\ starts' = [starts EXCEPT ![k] = "done"]
                  /\ task' = [s \in Services |->
                                [task[s] EXCEPT ![k] = startServiceMonitoring(s, TRUE)]]
             ELSE /\ starts' = [starts EXCEPT ![k] = "awaiting"]
                  /\ task' = [s \in Services |->
                                IF s \in probed
                                THEN [task[s] EXCEPT ![k] = NewProbe(s, "initial")]
                                ELSE task[s]]
  /\ isRunning' = TRUE
  /\ event' = NoEvent
  /\ UNCHANGED <<config, phase, serviceStates, timers, lastCycle, db, dbOpen,
                 initialBackups, files, backups, failedProbes, hcCall, lastPatch, snap,
                 nginxCmd, dbCall>>

\* clearTimeout on every handle of this.timers, then this.timers.clear()
ClearTimers(tk, tm) ==
  [s \in Services |->
     [k \in Chains |->
        IF tm[s] = k /\ tk[s][k].pc = "timer"
        THEN [NoTask EXCEPT !.pc = "ended"]
        ELSE tk[s][k]]]

Stop ==
  /\ isRunning
  /\ isRunning' = FALSE
  /\ task' = ClearTimers(task, timers)
  /\ timers' = [s \in Services |-> 0]
  /\ event' = NoEvent
  /\ UNCHANGED <<config, phase, serviceStates, lastCycle, starts, db, dbOpen,
                 initialBackups, files, backups, failedProbes, hcCall, lastPatch, snap,
                 nginxCmd, dbCall>>

\* stop(), then database.close()
Shutdown ==
  /\ phase = "initialized"
  /\ dbOpen
  /\ isRunning' = FALSE
  /\ task' = IF isRunning THEN ClearTimers(task, timers) ELSE task
  /\ timers' = IF isRunning THEN [s \in Services |-> 0] ELSE timers
  /\ dbOpen' = FALSE
  /\ event' = NoEvent
  /\ UNCHANGED <<config, phase, serviceStates, lastCycle, starts, db, initialBackups,
                 files, backups, failedProbes, hcCall, lastPatch, snap,
                 nginxCmd, dbCall>>

(***************************************************************************)
(* The monitoring cycle: startServiceMonitoring, checkAndUpdateService,    *)
(* updateServiceConfiguration, scheduleNextCheck                           *)
(***************************************************************************)
\* The cycle of chain k is over: scheduleNextCheck(serviceName, serviceState).
\* t1 is the cycle as it ends, st1 the service state, c the checkHealth
\* result of this step (IdleCall when the step completed none).
EndCycle(s, k, t1, st1, c) ==
  /\ task' = [task EXCEPT ![s][k] = scheduleNextCheck(isRunning)]
  /\ lastCycle' = [lastCycle EXCEPT ![s] = CarryOver(t1, @)]
  /\ timers' = IF isRunning THEN [timers EXCEPT ![s] = k] ELSE timers
  /\ event' = [s |-> s, k |-> k, hc |-> c, ended |-> TRUE, log |-> t1,
               armed |-> isRunning,
               delay |-> IF isRunning THEN NextDelay(st1) ELSE "none"]

\* The setTimeout callback of chain k runs.
TimerFires(s, k) ==
  /\ task[s][k].pc = "timer"
  /\ task' = [task EXCEPT ![s][k] = startServiceMonitoring(s, isRunning)]
  /\ event' = NoEvent
  /\ UNCHANGED <<config, phase, isRunning, serviceStates, timers, lastCycle, starts, db,
                 dbOpen, initialBackups, files, backups, failedProbes,
                 hcCall, lastPatch, snap,
                 nginxCmd, dbCall>>

\* performInitialHealthCheck of service s is over; when it was the last one
\* of start() call k, Promise.all resolves and start() begins the monitoring.
InitialDone(s, k, t1, c) ==
  LET tk1 == [task EXCEPT ![s][k] = [NoTask EXCEPT !.pc = "idone", !.kind = "initial"]]
      all == /\ starts[k] = "awaiting"
             /\ \A s2 \in Services :
                  tk1[s2][k].kind = "initial" => tk1[s2][k].pc = "idone"
  IN /\ starts' = IF all THEN [starts EXCEPT ![k] = "done"] ELSE starts
     /\ task' = IF all
                THEN [s2 \in Services |->
                        [tk1[s2] EXCEPT ![k] = startServiceMonitoring(s2, isRunning)]]
                ELSE tk1
     /\ event' = [s |-> s, k |-> k, hc |-> c, ended |-> TRUE, log |-> t1,
                  armed |-> FALSE, delay |-> "none"]

\* checkAndUpdateService after checkHealth returned c
checkAndUpdateService(s, k, c) ==
  LET t == task[s][k]
      st == serviceStates[s]
      st1 == [st EXCEPT !.isHealthy = c.success,
                        !.consecutiveFailures = IF c.success THEN 0 ELSE @ + 1]
      targetConfig ==
        IF c.success
        THEN IF st.originalConfig # NoTarget THEN st.originalConfig
             ELSE config[s].if_success
        ELSE config[s].if_failed
      t1 == [t EXCEPT !.hc = IdleCall,
                      !.probed = IF c.success THEN "ok" ELSE "fail",
                      !.applied0 = Applied(st),
                      !.desired = targetConfig,
                      !.prev = LogOf(lastCycle[s])]
  IN /\ ~c.success => st.consecutiveFailures < MaxFailures
     /\ serviceStates' = [serviceStates EXCEPT ![s] = st1]
     /\ failedProbes' = [failedProbes EXCEPT ![s] = IF c.success THEN 0 ELSE Bump(@)]
     /\ IF targetConfig = NoTarget \/ ~needsConfigurationUpdate(st1, targetConfig)
        THEN EndCycle(s, k, t1, st1, c)
        ELSE \* updateServiceConfiguration: findProxyHostByDomain is issued
             /\ task' = [task EXCEPT ![s][k] =
                           [t1 EXCEPT !.pc = "find", !.dbClosed = ~dbOpen]]
             /\ event' = [NoEvent EXCEPT !.s = s, !.k = k, !.hc = c]
             /\ UNCHANGED <<timers, lastCycle>>
     /\ UNCHANGED starts

\* performInitialHealthCheck after checkHealth returned c
performInitialHealthCheck(s, k, c) ==
  LET t == task[s][k]
      st == serviceStates[s]
      st1 == [st EXCEPT !.isHealthy = c.success,
                        !.consecutiveFailures = IF c.success THEN 0 ELSE 1]
      t1 == [t EXCEPT !.hc = IdleCall,
                      !.probed = IF c.success THEN "ok" ELSE "fail",
                      !.applied0 = Applied(st)]
  IN /\ serviceStates' = [serviceStates EXCEPT ![s] = st1]
     /\ failedProbes' = [failedProbes EXCEPT ![s] = IF c.success THEN 0 ELSE Bump(@)]
     /\ IF c.success
        THEN InitialDone(s, k, t1, c)
        ELSE \* switchToFallbackConfiguration: updateProxyHost is issued
             /\ task' = [task EXCEPT ![s][k] =
                           [t1 EXCEPT !.pc = "idb1", !.dbClosed = ~dbOpen,
                                      !.desired = config[s].if_failed]]
             /\ event' = [NoEvent EXCEPT !.s = s, !.k = k, !.hc = c]
             /\ UNCHANGED starts
     /\ UNCHANGED <<timers, lastCycle>>

\* The response to the HTTP GET of the probe arrives.
ProbeResponse(s, k, o) ==
  /\ task[s][k].pc = "probe"
  /\ task[s][k].hc.pc = "get"
  /\ LET c == HCOnResponse(task[s][k].hc, o)
     IN IF c.pc # "done"
        THEN /\ task' = [task EXCEPT ![s][k].hc = c]
             /\ event' = NoEvent
             /\ UNCHANGED <<serviceStates, timers, lastCycle, starts, failedProbes>>
        ELSE IF task[s][k].kind = "cycle"
        THEN checkAndUpdateService(s, k, c)
        ELSE performInitialHealthCheck(s, k, c)
  /\ UNCHANGED <<config, phase, isRunning, db, dbOpen, initialBackups, files,
                 backups, hcCall, lastPatch, snap,
                 nginxCmd, dbCall>>

\* sleep(1000) of the probe is over.
ProbeRetry(s, k) ==
  /\ task[s][k].pc = "probe"
  /\ task[s][k].hc.pc = "sleep"
  /\ task' = [task EXCEPT ![s][k].hc = HCOnWake(@)]
  /\ event' = NoEvent
  /\ UNCHANGED <<config, phase, isRunning, serviceStates, timers, lastCycle, starts, db,
                 dbOpen, initialBackups, files, backups, failedProbes,
                 hcCall, lastPatch, snap,
                 nginxCmd, dbCall>>

\* updateServiceConfiguration: findProxyHostByDomain returns, the file is
\* patched and updateProxyHost is issued.
FindReturns(s, k, res, io) ==
  /\ task[s][k].pc = "find"
  /\ res = "ok" => ~task[s][k].dbClosed
  /\ LET t == task[s][k]
         st == serviceStates[s]
         id == findProxyHostByDomain(db, config[s].domain)
     IN IF res = "reject"
        THEN /\ EndCycle(s, k, [t EXCEPT !.found = "error"], st, IdleCall)
             /\ UNCHANGED <<files, backups>>
        ELSE IF id = ""
        THEN /\ EndCycle(s, k, [t EXCEPT !.found = "no"], st, IdleCall)
             /\ UNCHANGED <<files, backups>>
        ELSE
          LET proxyHost == db[id]
              targetConfig == t.desired
              oldHost == OrElse(st.currentHost, proxyHost.forward_host)
              oldPort == OrElsePort(st.currentPort, proxyHost.forward_port)
              oldScheme == OrElse(st.currentScheme, proxyHost.forward_scheme)
              newHost == targetConfig.host
              newPort == targetConfig.port
              newScheme == OrElse(targetConfig.scheme, oldScheme)
              r == updateProxyConfig(files, backups, id,
                                     oldHost, newHost, oldPort, newPort, io)
              t1 == [t EXCEPT !.found = "yes", !.pid = id,
                              !.new = Target(newHost, newPort, newScheme)]
          IN /\ files' = r.files
             /\ backups' = r.backups
             /\ IF ~r.ok
                THEN EndCycle(s, k, [t1 EXCEPT !.patch = "fail"], st, IdleCall)
                ELSE /\ task' = [task EXCEPT ![s][k] =
                                   [t1 EXCEPT !.patch = "ok", !.pc = "dbupd",
                                              !.dbClosed = ~dbOpen]]
                     /\ event' = NoEvent
                     /\ UNCHANGED <<timers, lastCycle>>
  /\ UNCHANGED <<config, phase, isRunning, serviceStates, starts, db, dbOpen,
                 initialBackups, failedProbes, hcCall, lastPatch, snap,
                 nginxCmd, dbCall>>

\* updateServiceConfiguration: updateProxyHost returns; the state is
\* updated and reloadNginx is issued.
UpdateReturns(s, k, res) ==
  /\ task[s][k].pc = "dbupd"
  /\ res = "ok" => ~task[s][k].dbClosed
  /\ LET t == task[s][k]
         st == serviceStates[s]
     IN IF res = "reject"
        THEN /\ EndCycle(s, k, [t EXCEPT !.recUpd = "fail"], st, IdleCall)
             /\ UNCHANGED <<db, serviceStates>>
        ELSE /\ db' = updateProxyHost(db, t.pid, t.new.host, t.new.port, t.new.scheme)
             /\ serviceStates' =
                  [serviceStates EXCEPT ![s].currentHost = t.new.host,
                                        ![s].currentPort = t.new.port,
                                        ![s].currentScheme = t.new.scheme]
             /\ task' = [task EXCEPT ![s][k] =
                           [t EXCEPT !.recUpd = "ok", !.pc = "reload",
                                     !.reloads = @ + 1]]
             /\ event' = NoEvent
             /\ UNCHANGED <<timers, lastCycle>>
  /\ UNCHANGED <<config, phase, isRunning, starts, dbOpen, initialBackups,
                 files, backups, failedProbes, hcCall, lastPatch, snap,
                 nginxCmd, dbCall>>

\* updateServiceConfiguration: reloadNginx returns.
ReloadReturns(s, k, nginxReloadSuccess) ==
  /\ task[s][k].pc = "reload"
  /\ EndCycle(s, k,
              [task[s][k] EXCEPT !.reload = IF nginxReloadSuccess THEN "ok" ELSE "fail"],
              serviceStates[s], IdleCall)
  /\ UNCHANGED <<config, phase, isRunning, serviceStates, starts, db, dbOpen,
                 initialBackups, files, backups, failedProbes, hcCall, lastPatch, snap,
                 nginxCmd, dbCall>>

\* switchToFallbackConfiguration: updateProxyHost(serviceName, ...) returns,
\* then updateProxyConfig(serviceName, ...) and the state update.
switchToFallbackConfiguration(s, k, res) ==
  /\ task[s][k].pc \in {"idb1", "idb2"}
  /\ res = "ok" => ~task[s][k].dbClosed
  /\ LET t == task[s][k]
         st == serviceStates[s]
         fallbackConfig == config[s].if_failed
     IN IF res = "reject"
        THEN IF t.pc = "idb1"
             THEN \* catch of performInitialHealthCheck: switch again
                  /\ serviceStates' =
                       [serviceStates EXCEPT ![s].isHealthy = FALSE,
                                             ![s].consecutiveFailures = 1]
                  /\ task' = [task EXCEPT ![s][k] =
                                [t EXCEPT !.pc = "idb2", !.dbClosed = ~dbOpen]]
                  /\ event' = NoEvent
                  /\ UNCHANGED <<starts, db, files, backups>>
             ELSE \* the rejection leaves performInitialHealthCheck: start() rejects
                  /\ task' = [task EXCEPT ![s][k] =
                                [NoTask EXCEPT !.pc = "irejected", !.kind = "initial"]]
                  /\ starts' = IF starts[k] = "awaiting"
                               THEN [starts EXCEPT ![k] = "rejected"] ELSE starts
                  /\ event' = [s |-> s, k |-> k, hc |-> IdleCall, ended |-> TRUE,
                               log |-> [t EXCEPT !.recUpd = "fail"],
                               armed |-> FALSE, delay |-> "none"]
                  /\ UNCHANGED <<serviceStates, db, files, backups>>
        ELSE
          LET r == updateProxyConfig(files, backups, s,
                     OrElse(st.currentHost, st.originalConfig.host),
                     OrElsePort(st.currentPort, st.originalConfig.port),
                     OrElse(st.currentScheme, st.originalConfig.scheme),
                     fallbackConfig.host, "ok")
              t1 == [t EXCEPT !.recUpd = "ok",
                              !.patch = IF r.ok THEN "ok" ELSE "fail",
                              !.new = fallbackConfig]
          IN /\ db' = updateProxyHost(db, s, fallbackConfig.host,
                                      fallbackConfig.port, fallbackConfig.scheme)
             /\ files' = r.files
             /\ backups' = r.backups
             /\ serviceStates' =
                  [serviceStates EXCEPT ![s].currentHost = fallbackConfig.host,
                                        ![s].currentPort = fallbackConfig.port,
                                        ![s].currentScheme = fallbackConfig.scheme]
             /\ InitialDone(s, k, t1, IdleCall)
  /\ UNCHANGED <<config, phase, isRunning, timers, lastCycle, dbOpen, initialBackups,
                 failedProbes, hcCall, lastPatch, snap,
                 nginxCmd, dbCall>>

(***************************************************************************)
(* NginxConfigUpdater constructor: nginxRefreshCmd and nginxTestCmd.       *)
(* A command is the sequence of its words: split(' ') of the text, and     *)
(* join(' ') back.                                                         *)
(***************************************************************************)
CmdWords == {"docker", "/usr/sbin/nginx", "-s", "reload", "systemctl"}

\* part.includes('nginx'), part.includes('-s') over CmdWords
IncludesNginx(part) == part = "/usr/sbin/nginx"
IncludesDashS(part) == part = "-s"

DefaultRefreshCmd == <<"/usr/sbin/nginx", "-s", "reload">>

\* findIndex / indexOf: the least of the matching indices, 0 (for -1) when
\* there is none.
FirstIndex(matching) ==
  IF matching # {}
  THEN CHOOSE i \in matching : \A j \in matching : i <= j
  ELSE 0

getNginxTestCommand(parts) ==
  LET IsBinary(part) == IncludesNginx(part) /\ ~IncludesDashS(part)
      IsDashS(part) == part = "-s"
      nginxIndex == FirstIndex({i \in 1..Len(parts) : IsBinary(parts[i])})
      reloadIndex == FirstIndex({i \in 1..Len(parts) : IsDashS(parts[i])})
  IN IF nginxIndex = 0
     THEN <<parts[1], "-t">>
     ELSE IF reloadIndex # 0 /\ reloadIndex + 1 <= Len(parts)
                /\ parts[reloadIndex + 1] = "reload"
          THEN [parts EXCEPT ![reloadIndex + 1] = "t"]
          ELSE Append(parts, "-t")

\* new NginxConfigUpdater(config): nginx_refresh_cmd || '/usr/sbin/nginx -s reload'
NginxConfigUpdater(nginx_refresh_cmd) ==
  LET nginxRefreshCmd == IF nginx_refresh_cmd = <<>> THEN DefaultRefreshCmd
                         ELSE nginx_refresh_cmd
  IN [nginxRefreshCmd |-> nginxRefreshCmd,
      nginxTestCmd |-> getNginxTestCommand(nginxRefreshCmd)]

DefaultCmd == NginxConfigUpdater(<<>>)

(***************************************************************************)
(* SnapshotManager: snapshot_dir holds snapshot-<id>.json files.           *)
(* dir[id] is 0 when the file is absent, else the serial of the            *)
(* createSnapshot call that wrote it (its description and timestamp).      *)
(***************************************************************************)
SnapIds == 1..MaxSnapshots
FsOutcomes == {"ok", "fail"}
NoDir == [id \in SnapIds |-> 0]

StoredIds(dir) == {id \in SnapIds : dir[id] # 0}

\* Math.max(...numbers), 0 when there is none
MaxOf(S) == IF S = {} THEN 0 ELSE CHOOSE m \in S : \A x \in S : x <= m

\* getLatestSnapshotNumber: mkdir, readdir, the largest number; 0 in the catch
getLatestSnapshotNumber(dir, scan) ==
  IF scan = "fail" THEN 0 ELSE MaxOf(StoredIds(dir))

\* createSnapshot: mkdir, getLatestSnapshotNumber() + 1, writeFile; an error
\* of mkdir or writeFile is rethrown
createSnapshot(dir, serial, mkdir, scan, write) ==
  LET snapshotNumber == getLatestSnapshotNumber(dir, scan) + 1
  IN IF mkdir = "fail" \/ write = "fail"
     THEN [threw |-> TRUE, id |-> 0, dir |-> dir]
     ELSE [threw |-> FALSE, id |-> snapshotNumber,
           dir |-> [dir EXCEPT ![snapshotNumber] = serial]]

\* snapshots.sort((a, b) => a.id - b.id)
RECURSIVE SortById(_)
SortById(S) ==
  IF S = {} THEN <<>>
  ELSE LET a == CHOOSE x \in S :
                  \A y \in S : x.id < y.id \/ (x.id = y.id /\ x.serial <= y.serial)
       IN <<a>> \o SortById(S \ {a})

\* listSnapshots: readdir, read every snapshot-*.json, sort by id; [] in the catch
listSnapshots(dir, scan) ==
  IF scan = "fail" THEN <<>>
  ELSE SortById({[id |-> id, serial |-> dir[id]] : id \in StoredIds(dir)})

\* deleteSnapshot: unlink, true; false in the catch
deleteSnapshot(dir, snapshotNumber, unlink) ==
  IF dir[snapshotNumber] = 0 \/ unlink = "fail"
  THEN [ok |-> FALSE, dir |-> dir]
  ELSE [ok |-> TRUE, dir |-> [dir EXCEPT ![snapshotNumber] = 0]]

NoSnapCall ==
  [op |-> "none", ok |-> FALSE, id |-> 0, before |-> {}, scan |-> "ok", listed |-> <<>>]

\* dir: the directory; made: createSnapshot calls so far; live: history, the
\* snapshots created and not deleted; issued: history, the ids createSnapshot
\* has returned; last: history, the last call
NoSnap ==
  [dir |-> NoDir, made |-> 0, live |-> {}, issued |-> {}, last |-> NoSnapCall]

(***************************************************************************)
(* Spec: the ServiceManager under any order of initialize(), start(),      *)
(* stop() and shutdown() calls, probe outcomes and store, file and reload  *)
(* failures.                                                               *)
(***************************************************************************)
SsoRow == Row(<<"sso.example.com">>, "10.0.0.1", 8080, "http")
ApiRow == Row(<<"api.example.com">>, "10.0.1.1", 80, "https")

NoPatch ==
  [n |-> 0, key |-> "", pre |-> NoFileEntry, oldHost |-> "", newHost |-> "",
   oldPort |-> 0, newPort |-> 0, io |-> "ok", ok |-> FALSE]

InitManagerAt(history) ==
  /\ phase = "constructed"
  /\ snap = NoSnap
  /\ nginxCmd = DefaultCmd
  /\ dbCall = NoDbCall
  /\ event = NoEvent
  /\ isRunning = FALSE
  /\ serviceStates = [s \in Services |-> NoState]
  /\ timers = [s \in Services |-> 0]
  /\ lastCycle = [s \in Services |-> history]
  /\ task = [s \in Services |-> [k \in Chains |-> NoTask]]
  /\ starts = [k \in Chains |-> "none"]
  /\ dbOpen = FALSE
  /\ initialBackups = [s \in Services |-> <<>>]
  /\ failedProbes = [s \in Services |-> 0]

InitManager == InitManagerAt(NoHistory)

\* The configurations of a run: any non-empty choice of the services.
Configs == {[s \in S |-> ServiceConfigs[s]] : S \in (SUBSET AllServices) \ {{}}}

InitOf(configs, history) ==
  /\ config \in configs
  /\ InitManagerAt(history)
  \* the rows and files of the configured services vary; the others are there
  /\ \E apiRow \in IF "api" \in Services THEN {ApiRow, NoRow} ELSE {ApiRow} :
       db = [id \in RecordIds |-> IF id = "1" THEN SsoRow ELSE apiRow]
  /\ \E present \in SUBSET {id \in RecordIds : db[id].present} :
       /\ \A id \in RecordIds :
            db[id].present /\ (\A s \in Services : Like(JsonText(db[id].domain_names), <<config[s].domain>>) = FALSE)
              => id \in present
       /\ files = [key \in FileKeys |->
                    IF key \in present THEN FileEntry(NpmFile(db[key])) ELSE NoFileEntry]
  /\ backups = [key \in FileKeys |-> {}]
  /\ hcCall = IdleCall
  /\ lastPatch = NoPatch

Init == InitOf(Configs, NoHistory)

DoInitialize ==
  \E nginxConfigValid \in BOOLEAN, failAt \in 0..Len(ServiceOrder) :
    Initialize(nginxConfigValid, failAt)
DoTimerFires == \E s \in Services, k \in Chains : TimerFires(s, k)
DoProbeResponse ==
  \E s \in Services, k \in Chains, o \in ProbeOutcomes : ProbeResponse(s, k, o)
DoProbeRetry == \E s \in Services, k \in Chains : ProbeRetry(s, k)
DoFindReturns ==
  \E s \in Services, k \in Chains, res \in DbOutcomes, io \in IoOutcomes :
    FindReturns(s, k, res, io)
DoUpdateReturns ==
  \E s \in Services, k \in Chains, res \in DbOutcomes : UpdateReturns(s, k, res)
DoReloadReturns ==
  \E s \in Services, k \in Chains, ok \in BOOLEAN : ReloadReturns(s, k, ok)
DoSwitchToFallback ==
  \E s \in Services, k \in Chains, res \in DbOutcomes :
    switchToFallbackConfiguration(s, k, res)

Next ==
  \/ DoInitialize
  \/ Start
  \/ Stop
  \/ Shutdown
  \/ DoTimerFires
  \/ DoProbeResponse
  \/ DoProbeRetry
  \/ DoFindReturns
  \/ DoUpdateReturns
  \/ DoReloadReturns
  \/ DoSwitchToFallback

Spec == Init /\ [][Next]_vars

(***************************************************************************)
(* SpecCycles: the ServiceManager with the one service sso configured      *)
(* (its fallback omits the scheme) with retries: 2, never shut down, and   *)
(* with the history of each cycle's update failure kept for the cycles     *)
(* after it                                                                *)
(***************************************************************************)
CycleConfigs == {[s \in {"sso"} |-> [ServiceConfigs[s] EXCEPT !.retries = <<2>>]]}

InitCycles == InitOf(CycleConfigs, NoPrev)

NextCycles ==
  \/ DoInitialize
  \/ Start
  \/ Stop
  \/ DoTimerFires
  \/ DoProbeResponse
  \/ DoProbeRetry
  \/ DoFindReturns
  \/ DoUpdateReturns
  \/ DoReloadReturns
  \/ DoSwitchToFallback

SpecCycles == InitCycles /\ [][NextCycles]_vars

(***************************************************************************)
(* SpecRestart: runs of the process, one after the other, over the same    *)
(* proxy_host table, config directory and backup directory.  The store     *)
(* starts as Nginx Proxy Manager wrote it (no failover yet); a run ends    *)
(* with the process (shutdown() and process.exit, or a kill) and the next  *)
(* run constructs its ServiceManager anew.                                 *)
(***************************************************************************)
\* The process exits and Application.start() of a new process constructs
\* the ServiceManager: what is in memory is gone, the table, the config
\* files and the backups stay.
RestartProcess ==
  /\ phase # "constructed"
  /\ \A s \in Services : Len(initialBackups[s]) < MaxRuns
  /\ phase' = "constructed"
  /\ isRunning' = FALSE
  /\ serviceStates' = [s \in Services |-> NoState]
  /\ timers' = [s \in Services |-> 0]
  /\ task' = [s \in Services |-> [k \in Chains |-> NoTask]]
  /\ starts' = [k \in Chains |-> "none"]
  /\ dbOpen' = FALSE
  /\ failedProbes' = [s \in Services |-> 0]
  /\ event' = NoEvent
  /\ UNCHANGED <<config, lastCycle, db, initialBackups, files, backups,
                 hcCall, lastPatch, snap, nginxCmd, dbCall>>

NextRestart ==
  \/ DoInitialize
  \/ Start
  \/ DoTimerFires
  \/ DoProbeResponse
  \/ DoProbeRetry
  \/ DoFindReturns
  \/ DoUpdateReturns
  \/ DoReloadReturns
  \/ DoSwitchToFallback
  \/ RestartProcess

SpecRestart == InitOf(CycleConfigs, NoHistory) /\ [][NextRestart]_vars

(***************************************************************************)
(* SpecLive: the ServiceManager that is started and never stopped, with   *)
(* one service configured (sso in one run, api in another).  What a        *)
(* service waits for arrives: its timer fires, the probe's request is      *)
(* answered or times out, the retry delay ends, the store and the reload   *)
(* command call back.                                                      *)
(***************************************************************************)
LiveConfigs == {c \in Configs : Cardinality(DOMAIN c) = 1}

InitLive == InitOf(LiveConfigs, NoHistory)

\* The next step of what is pending for service s.
ServiceStep(s) ==
  /\ s \in Services
  /\ \E k \in Chains :
       \/ TimerFires(s, k)
       \/ \E o \in ProbeOutcomes : ProbeResponse(s, k, o)
       \/ ProbeRetry(s, k)
       \/ \E res \in DbOutcomes, io \in IoOutcomes : FindReturns(s, k, res, io)
       \/ \E res \in DbOutcomes : UpdateReturns(s, k, res)
       \/ \E ok \in BOOLEAN : ReloadReturns(s, k, ok)
       \/ \E res \in DbOutcomes : switchToFallbackConfiguration(s, k, res)

NextLive ==
  \/ DoInitialize
  \/ Start
  \/ DoTimerFires
  \/ DoProbeResponse
  \/ DoProbeRetry
  \/ DoFindReturns
  \/ DoUpdateReturns
  \/ DoReloadReturns
  \/ DoSwitchToFallback

SpecLive ==
  /\ InitLive
  /\ [][NextLive]_vars
  /\ \A s \in AllServices : WF_vars(ServiceStep(s))

(***************************************************************************)
(* SpecHC: direct calls of HealthChecker.checkHealth                       *)
(***************************************************************************)
RetriesArgs == {<<>>} \cup {<<n>> : n \in (-1)..MaxRetriesArg}

ManagerVars == <<snap, nginxCmd, dbCall, config, event, phase, isRunning, serviceStates, timers, lastCycle, task, starts, db,
                 dbOpen, initialBackups, failedProbes>>

InitHC ==
  /\ config = ServiceConfigs
  /\ InitManager
  /\ db = [id \in RecordIds |-> NoRow]
  /\ files = [key \in FileKeys |-> NoFileEntry]
  /\ backups = [key \in FileKeys |-> {}]
  /\ hcCall = IdleCall
  /\ lastPatch = NoPatch

CallCheckHealth ==
  /\ hcCall.pc \in {"idle", "done"}
  /\ \E retries \in RetriesArgs : hcCall' = HCStart(retries)
  /\ UNCHANGED <<ManagerVars, files, backups, lastPatch>>

CallResponse ==
  /\ hcCall.pc = "get"
  /\ \E o \in Outcomes : hcCall' = HCOnResponse(hcCall, o)
  /\ UNCHANGED <<ManagerVars, files, backups, lastPatch>>

CallRetry ==
  /\ hcCall.pc = "sleep"
  /\ hcCall' = HCOnWake(hcCall)
  /\ UNCHANGED <<ManagerVars, files, backups, lastPatch>>

NextHC == CallCheckHealth \/ CallResponse \/ CallRetry

SpecHC == InitHC /\ [][NextHC]_vars

(***************************************************************************)
(* SpecNginx: direct calls of NginxConfigUpdater.updateProxyConfig         *)
(***************************************************************************)
Hosts == {"10.0.0.1", "10.0.0.2"}
Ports == {80, 8080}

Tokens ==
  {Tok("set_scheme", "http", 0)}
  \cup {Tok("set_server", h, 0) : h \in Hosts}
  \cup {Tok("set_port", "", p) : p \in Ports}
  \cup {Tok(k, h, p) : k \in {"server_semi", "server_bare"}, h \in Hosts, p \in Ports}

Contents == UNION {[1..n -> Tokens] : n \in 1..MaxTokens}

InitNginx ==
  /\ config = ServiceConfigs
  /\ InitManager
  /\ db = [id \in RecordIds |-> NoRow]
  /\ \E e \in {NoFileEntry} \cup {FileEntry(c) : c \in Contents} :
       files = [key \in FileKeys |-> IF key = "1" THEN e ELSE NoFileEntry]
  /\ backups = [key \in FileKeys |-> {}]
  /\ hcCall = IdleCall
  /\ lastPatch = NoPatch

CallUpdateProxyConfig ==
  /\ lastPatch.n < MaxPatches
  /\ \E oldHost \in Hosts, newHost \in Hosts, oldPort \in Ports, newPort \in Ports,
        io \in IoOutcomes :
       LET r == updateProxyConfig(files, backups, "1",
                                  oldHost, newHost, oldPort, newPort, io)
       IN /\ files' = r.files
          /\ backups' = r.backups
          /\ lastPatch' = [n |-> lastPatch.n + 1, key |-> "1", pre |-> files["1"],
                           oldHost |-> oldHost, newHost |-> newHost,
                           oldPort |-> oldPort, newPort |-> newPort,
                           io |-> io, ok |-> r.ok]
  /\ UNCHANGED <<ManagerVars, hcCall>>

NextNginx == CallUpdateProxyConfig

SpecNginx == InitNginx /\ [][NextNginx]_vars

(***************************************************************************)
(* SpecSnap: direct, sequential calls of the SnapshotManager               *)
(***************************************************************************)
SnapFrame == <<nginxCmd, dbCall, config, event, phase, isRunning, serviceStates, timers, lastCycle, task, starts,
               db, dbOpen, initialBackups, failedProbes, files, backups,
               hcCall, lastPatch>>

InitSnap ==
  /\ config = ServiceConfigs
  /\ InitManager
  /\ db = [id \in RecordIds |-> NoRow]
  /\ files = [key \in FileKeys |-> NoFileEntry]
  /\ backups = [key \in FileKeys |-> {}]
  /\ hcCall = IdleCall
  /\ lastPatch = NoPatch

CallCreateSnapshot ==
  /\ snap.made < MaxSnapshots
  /\ \E mkdir \in FsOutcomes, scan \in FsOutcomes, write \in FsOutcomes :
       LET serial == snap.made + 1
           r == createSnapshot(snap.dir, serial, mkdir, scan, write)
       IN snap' = [dir |-> r.dir, made |-> serial,
                   live |-> IF r.threw THEN snap.live
                            ELSE snap.live \cup {[id |-> r.id, serial |-> serial]},
                   issued |-> IF r.threw THEN snap.issued
                              ELSE snap.issued \cup {r.id},
                   last |-> [NoSnapCall EXCEPT !.op = "create", !.ok = ~r.threw,
                                               !.id = r.id, !.scan = scan,
                                               !.before = StoredIds(snap.dir)]]
  /\ UNCHANGED SnapFrame

CallDeleteSnapshot ==
  /\ \E snapshotNumber \in SnapIds, unlink \in FsOutcomes :
       LET r == deleteSnapshot(snap.dir, snapshotNumber, unlink)
       IN snap' = [snap EXCEPT
                     !.dir = r.dir,
                     !.live = IF r.ok THEN {x \in @ : x.id # snapshotNumber} ELSE @,
                     !.last = [NoSnapCall EXCEPT !.op = "delete", !.ok = r.ok,
                                                 !.id = snapshotNumber,
                                                 !.before = StoredIds(snap.dir)]]
  /\ UNCHANGED SnapFrame

CallListSnapshots ==
  /\ \E scan \in FsOutcomes :
       snap' = [snap EXCEPT
                  !.last = [NoSnapCall EXCEPT !.op = "list", !.ok = (scan = "ok"),
                                              !.scan = scan,
                                              !.before = StoredIds(snap.dir),
                                              !.listed = listSnapshots(snap.dir, scan)]]
  /\ UNCHANGED SnapFrame

NextSnap == CallCreateSnapshot \/ CallDeleteSnapshot \/ CallListSnapshots

SpecSnap == InitSnap /\ [][NextSnap]_vars

(***************************************************************************)
(* SpecCmd: constructions of the NginxConfigUpdater over refresh commands  *)
(***************************************************************************)
RECURSIVE WordSeqs(_)
WordSeqs(n) ==
  IF n = 0 THEN {<<>>}
  ELSE WordSeqs(n - 1) \cup
       {Append(c, w) : c \in {c \in WordSeqs(n - 1) : Len(c) = n - 1}, w \in CmdWords}

RefreshCmds == WordSeqs(MaxParts)

CmdFrame == <<snap, dbCall, config, event, phase, isRunning, serviceStates, timers, lastCycle, task,
              starts, db, dbOpen, initialBackups, failedProbes, files, backups,
              hcCall, lastPatch>>

ConstructUpdater ==
  /\ \E nginx_refresh_cmd \in RefreshCmds :
       nginxCmd' = NginxConfigUpdater(nginx_refresh_cmd)
  /\ UNCHANGED CmdFrame

NextCmd == ConstructUpdater

SpecCmd == InitSnap /\ [][NextCmd]_vars

(***************************************************************************)
(* SpecDb: direct calls of DatabaseManager.findProxyHostByDomain and       *)
(* updateProxyHost over tables of one-domain, several-domain and deleted   *)
(* records                                                                 *)
(***************************************************************************)
DbDomains == {"sso.example.com", "api.example.com"}
DbNames ==
  {<<"sso.example.com">>, <<"api.example.com">>,
   <<"sso.example.com", "api.example.com">>,
   <<"api.example.com", "sso.example.com">>}
DbRows ==
  {NoRow} \cup
  {[Row(names, "10.0.0.1", 8080, "http") EXCEPT !.is_deleted = del] :
     names \in DbNames, del \in {0, 1}}
DbIdArgs == RecordIds \cup {"sso"}
DbSchemeArgs == {Undefined, "https"}

DbFrame == <<snap, nginxCmd, config, event, phase, isRunning, serviceStates,
             timers, lastCycle, task, starts, dbOpen, initialBackups, failedProbes, files,
             backups, hcCall, lastPatch>>

InitDb ==
  /\ config = ServiceConfigs
  /\ InitManager
  /\ db \in [RecordIds -> DbRows]
  /\ files = [key \in FileKeys |-> NoFileEntry]
  /\ backups = [key \in FileKeys |-> {}]
  /\ hcCall = IdleCall
  /\ lastPatch = NoPatch

CallFindProxyHostByDomain ==
  /\ dbCall.n < MaxDbCalls
  /\ \E domain \in DbDomains :
       dbCall' = [NoDbCall EXCEPT !.n = dbCall.n + 1, !.op = "find",
                                  !.domain = domain, !.before = db,
                                  !.found = findProxyHostByDomain(db, domain),
                                  !.ok = TRUE]
  /\ UNCHANGED <<db, DbFrame>>

CallUpdateProxyHost ==
  /\ dbCall.n < MaxDbCalls
  /\ \E id \in DbIdArgs, newScheme \in DbSchemeArgs :
       /\ db' = updateProxyHost(db, id, "10.0.0.2", 8000, newScheme)
       /\ dbCall' = [NoDbCall EXCEPT !.n = dbCall.n + 1, !.op = "update",
                                     !.id = id, !.scheme = newScheme,
                                     !.before = db,
                                     !.ok = updateProxyHostResolves(ThisChanges)]
  /\ UNCHANGED DbFrame

NextDb == CallFindProxyHostByDomain \/ CallUpdateProxyHost

SpecDb == InitDb /\ [][NextDb]_vars

(***************************************************************************)
(* Properties of HealthChecker.checkHealth (SpecHC)                        *)
(***************************************************************************)
\* The upper bound of the attempts of a call: clamp(retries, 1, 10), 3 when
\* the caller passes no retry count.
ClampedRetries(retries) ==
  IF retries = <<>> THEN 3 ELSE Min(Max(retries[1], 1), 10)

\* C3: for every call checkHealth(url, service, retries) the number of HTTP
\* attempts issued and the reported attempts value are both in
\* [1, min(max(retries, 1), 10)], and in [1, 3] when no retry count is passed.
C3_AttemptsWithinClamp ==
  hcCall.pc # "idle" =>
    /\ hcCall.issued \in 1..ClampedRetries(hcCall.retries)
    /\ hcCall.pc = "done" => hcCall.attempts \in 1..ClampedRetries(hcCall.retries)

\* C4: once attempt k of a call receives a 2xx response, no attempt k + 1 is
\* issued and no retry delay is waited: the call has returned success = true
\* with attempts = k, the index of the first successful attempt.
C4_ShortCircuitOnSuccess ==
  hcCall.firstOk # 0 =>
    /\ hcCall.pc = "done"
    /\ hcCall.success
    /\ hcCall.attempts = hcCall.firstOk
    /\ hcCall.issued = hcCall.firstOk
    /\ hcCall.slept = hcCall.firstOk - 1

\* A call that succeeded at attempt 2 with attempts to spare.
C4_Witness ==
  /\ hcCall.pc = "done"
  /\ hcCall.success
  /\ hcCall.firstOk = 2
  /\ hcCall.attempts = 2
  /\ hcCall.maxRetries > 2

(***************************************************************************)
(* Properties of NginxConfigUpdater.updateProxyConfig (SpecNginx)          *)
(***************************************************************************)
\* C6: after updateProxyConfig(recordId, oldHost, newHost, oldPort, newPort)
\* returned success on an existing file, every `set $server "oldHost";`,
\* `set $port oldPort;` and `server oldHost:oldPort;` of the file carries the
\* new host/port, and a backup holds the content the file had before.
C6_PatchRoundTrip ==
  (lastPatch.n > 0 /\ lastPatch.ok) =>
    LET pre == lastPatch.pre.content
        post == files[lastPatch.key].content
    IN /\ lastPatch.pre.exists
       /\ files[lastPatch.key].exists
       /\ Len(post) = Len(pre)
       /\ \A i \in 1..Len(pre) :
            /\ pre[i] = Tok("set_server", lastPatch.oldHost, 0)
                 => post[i] = Tok("set_server", lastPatch.newHost, 0)
            /\ pre[i] = Tok("set_port", "", lastPatch.oldPort)
                 => post[i] = Tok("set_port", "", lastPatch.newPort)
            /\ pre[i] = Tok("server_semi", lastPatch.oldHost, lastPatch.oldPort)
                 => post[i] = Tok("server_semi", lastPatch.newHost, lastPatch.newPort)
       /\ pre \in backups[lastPatch.key]

(***************************************************************************)
(* Properties of the ServiceManager (Spec)                                 *)
(***************************************************************************)
\* The cycles of service s in flight: probing or running the update protocol.
CyclesInFlight(s) ==
  {k \in Chains : task[s][k].kind = "cycle" /\ task[s][k].pc \in InFlightPcs}

\* C1: for every service at most one monitoring cycle (health probe plus
\* any update-protocol run) is in flight at any time, over every interleaving
\* of start(), stop(), shutdown(), timer firings and cycle completions.
C1_AtMostOneCycleInFlight ==
  \A s \in Services : Cardinality(CyclesInFlight(s)) <= 1

\* C2: in every reachable state a service's consecutiveFailures equals the
\* number of failed (retry-exhausted) probes completed for it since its last
\* successful probe, or since startup if none succeeded, initial probe and
\* scheduled cycles alike.
C2_ConsecutiveFailuresCount ==
  \A s \in Services :
    serviceStates[s].present =>
      serviceStates[s].consecutiveFailures = failedProbes[s]

\* The step completed a scheduled cycle of a service.
CycleEnded == event.ended /\ event.log.kind = "cycle"

\* The desired target equals the applied one in host, port and scheme, an
\* omitted scheme counting as the applied scheme.
SameTarget(desired, applied) ==
  /\ desired.host = applied.host
  /\ desired.port = applied.port
  /\ desired.scheme \in {applied.scheme, Undefined}

\* The cycles in flight and the cycle the last step completed.
CycleLogs ==
  {task[s][k] : s \in Services, k \in Chains} \cup {event.log}

\* C5: a cycle whose desired target equals the applied target in host, port
\* and scheme (an omitted fallback scheme counting as the applied scheme)
\* performs no config-file write, no ProxyRecord update and no reload.
C5_NoUpdateWhenTargetApplied ==
  \A l \in CycleLogs :
    (/\ l.kind = "cycle"
     /\ l.probed # "none"
     /\ l.desired # NoTarget
     /\ SameTarget(l.desired, l.applied0))
    => /\ l.pc \notin {"find", "dbupd", "reload"}
       /\ l.found = "none"
       /\ l.patch = "none"
       /\ l.recUpd = "none"
       /\ l.reloads = 0

\* The host and port idioms of a proxy host file hold host h and port p.
FileHolds(f, h, p) ==
  /\ f.exists
  /\ \E i \in 1..Len(f.content) : f.content[i] = Tok("set_server", h, 0)
  /\ \E i \in 1..Len(f.content) : f.content[i] = Tok("set_port", "", p)
  /\ \A i \in 1..Len(f.content) :
       /\ f.content[i].k = "set_server" => f.content[i].h = h
       /\ f.content[i].k = "set_port" => f.content[i].p = p

\* The cycle the last step completed ran the whole update protocol with
\* the file write, the record write and the reload succeeding.
FullUpdate(l) ==
  l.found = "yes" /\ l.patch = "ok" /\ l.recUpd = "ok" /\ l.reload = "ok"

\* C7: when a scheduled cycle's probe fails after exhausting its retries,
\* the applied target differs from the fallback, the ProxyRecord and its file
\* exist and file write, record write and reload all succeed, then at the end
\* of that cycle the applied target, the record and the file hold the
\* if_failed host and port and reload was invoked exactly once in the cycle.
C7_FailedCycleAppliesFallback ==
  (/\ CycleEnded
   /\ event.log.probed = "fail"
   /\ ~SameTarget(event.log.desired, event.log.applied0)
   /\ FullUpdate(event.log))
  => LET fb == config[event.s].if_failed
         st == serviceStates[event.s]
         id == event.log.pid
     IN /\ st.currentHost = fb.host
        /\ st.currentPort = fb.port
        /\ db[id].forward_host = fb.host
        /\ db[id].forward_port = fb.port
        /\ FileHolds(files[id], fb.host, fb.port)
        /\ event.log.reloads = 1

\* C8: for a service with no if_success that has been switched to its
\* fallback, a later cycle whose probe succeeds, with all writes succeeding,
\* ends with the applied target, the ProxyRecord and the config file equal to
\* the original target captured from the ProxyRecord at startup.
C8_RecoveryRestoresOriginal ==
  (/\ CycleEnded
   /\ event.log.probed = "ok"
   /\ config[event.s].if_success = NoTarget
   /\ serviceStates[event.s].originalConfig # NoTarget
   /\ event.log.applied0.host = config[event.s].if_failed.host
   /\ event.log.applied0.port = config[event.s].if_failed.port
   /\ event.log.found = "yes"
   /\ event.log.patch = "ok"
   /\ event.log.recUpd = "ok")
  => LET st == serviceStates[event.s]
         id == event.log.pid
     IN /\ Applied(st) = st.originalConfig
        /\ OriginalOf(db[id]) = st.originalConfig
        /\ FileHolds(files[id], st.originalConfig.host, st.originalConfig.port)

\* C9: a checkHealth call with bound n in which every attempt fails issues
\* exactly n attempts and waits the retry delay exactly n - 1 times, never
\* after the last attempt; with retries = 1 it issues exactly one attempt,
\* waits no delay, and the service is marked unhealthy by that cycle.
C9_ExhaustedProbe ==
  (event.hc.pc = "done" /\ ~event.hc.success)
  => /\ event.hc.maxRetries = Max(1, RetriesOr3(config[event.s].retries))
     /\ event.hc.issued = event.hc.maxRetries
     /\ event.hc.attempts = event.hc.maxRetries
     /\ event.hc.slept = event.hc.maxRetries - 1
     /\ ~serviceStates[event.s].isHealthy
     /\ config[event.s].retries = <<1>>
          => event.hc.issued = 1 /\ event.hc.slept = 0

\* A cycle of the service with retries = 1 ended its probe at the one attempt.
C9_Witness ==
  /\ event.hc.pc = "done"
  /\ ~event.hc.success
  /\ config[event.s].retries = <<1>>
  /\ event.hc.issued = 1
  /\ task[event.s][event.k].kind = "cycle" \/ event.log.kind = "cycle"
  /\ ~serviceStates[event.s].isHealthy

\* C10: whenever an update is required but the file of the record id does
\* not exist, or the patch otherwise fails, no ProxyRecord update and no
\* reload is performed and the applied target is unchanged, for the startup
\* switch to the fallback as well as for scheduled cycles.
C10_PatchFailureChangesNothing ==
  (event.ended /\ event.log.patch = "fail")
  => /\ event.log.recUpd = "none"
     /\ event.log.reloads = 0
     /\ Applied(serviceStates[event.s]) = event.log.applied0

(***************************************************************************)
(* Properties of the SnapshotManager (SpecSnap)                            *)
(***************************************************************************)
\* C11: createSnapshot run sequentially assigns the id (maximum id among the
\* stored snapshots) + 1, or 1 when none is stored; after any sequence of
\* createSnapshot and deleteSnapshot calls listSnapshots returns exactly the
\* snapshots created and not deleted, in ascending id order.
C11_SnapshotIdsAndListing ==
  /\ (snap.last.op = "create" /\ snap.last.ok)
       => snap.last.id = MaxOf(snap.last.before) + 1
  /\ (snap.last.op = "list" /\ snap.last.ok)
       => snap.last.listed = SortById(snap.live)

(***************************************************************************)
(* Properties of the ServiceManager (Spec), continued                      *)
(***************************************************************************)
\* The desired target after a successful probe: if_success when configured,
\* the original target otherwise.
SuccessTarget(s) ==
  IF config[s].if_success # NoTarget THEN config[s].if_success
  ELSE serviceStates[s].originalConfig

\* C12: after a successful probe the desired target is the service's
\* if_success target whenever if_success is configured, also when an original
\* target was captured at startup; the original target is used only when
\* if_success is absent.
C12_SuccessTargetPrecedence ==
  /\ \A s \in Services, k \in Chains :
       (task[s][k].kind = "cycle" /\ task[s][k].probed = "ok")
         => task[s][k].desired = SuccessTarget(s)
  /\ (CycleEnded /\ event.log.probed = "ok")
       => event.log.desired = SuccessTarget(event.s)

\* The update protocol or the startup switch of service s is in flight.
UpdateInFlight(s) ==
  \E k \in Chains : task[s][k].pc \in {"find", "dbupd", "reload", "idb1", "idb2"}

\* The scheme, host and port idioms of file f hold target tg.
FileHoldsTarget(f, tg) ==
  /\ FileHolds(f, tg.host, tg.port)
  /\ \A i \in 1..Len(f.content) :
       f.content[i].k = "set_scheme" => f.content[i].h = tg.scheme

\* C13: in every reachable state in which no update is in flight for a
\* service, its applied target (currentHost, currentPort, currentScheme)
\* equals the upstream target present in the service's config file, and after
\* an update protocol run in which both writes completed it also equals the
\* ProxyRecord's forward host/port/scheme, over every sequence of probe
\* outcomes and of patch, record-update and reload failures.
C13_AppliedEqualsFileAndRecord ==
  /\ \A s \in Services :
       LET id == findProxyHostByDomain(db, config[s].domain)
       IN (/\ serviceStates[s].present
           /\ serviceStates[s].originalConfig # NoTarget
           /\ ~UpdateInFlight(s)
           /\ id # ""
           /\ files[id].exists)
          => FileHoldsTarget(files[id], Applied(serviceStates[s]))
  /\ (CycleEnded /\ event.log.patch = "ok" /\ event.log.recUpd = "ok"
        /\ ~UpdateInFlight(event.s))
       => OriginalOf(db[event.log.pid]) = Applied(serviceStates[event.s])

\* A timer of service s is armed.
TimerArmed(s) == \E k \in Chains : task[s][k].pc = "timer"

\* The step begins a probe of a scheduled cycle of some service.
CycleBegins ==
  \E s \in Services, k \in Chains :
    /\ task'[s][k].pc = "probe"
    /\ task'[s][k].kind = "cycle"
    /\ ~(task[s][k].pc = "probe" /\ task[s][k].kind = "cycle")

\* C14: after stop()/shutdown() no timer remains armed for any service and
\* no new cycle (probe) is started for any service until start() is called
\* again, also when a cycle was in flight at the call: the in-flight cycle
\* completes without arming a new timer.
C14_StoppedMeansNoTimerNoCycle ==
  /\ [](~isRunning => \A s \in Services : ~TimerArmed(s))
  /\ [][(~isRunning /\ ~isRunning') => ~CycleBegins]_vars

\* C15: on shutdown the store connection is closed only once no cycle of any
\* service is in flight: no in-flight cycle ever issues findProxyHostByDomain
\* or updateProxyHost against a store connection that has already been closed.
C15_StoreClosedAfterCycles ==
  /\ [](\A s \in Services, k \in Chains :
         (task[s][k].kind = "cycle" /\ task[s][k].pc \in {"find", "dbupd"})
           => ~task[s][k].dbClosed)
  /\ [][(dbOpen /\ ~dbOpen') => \A s \in Services : CyclesInFlight(s) = {}]_vars

\* An initial probe (with its startup switch) of service s is in flight in
\* the task table tk.
InitialInFlight(tk, s) ==
  \E k \in Chains :
    tk[s][k].kind = "initial" /\ tk[s][k].pc \in {"probe", "idb1", "idb2"}

\* C16: on start() an immediate initial probe is issued for every configured
\* service, the probes run concurrently, and no scheduled monitoring cycle of
\* any service begins before the initial probes of all services completed.
C16_InitialProbesBeforeCycles ==
  /\ [][(~isRunning /\ isRunning')
         => \A s \in Services : InitialInFlight(task', s) /\ ~InitialInFlight(task, s)]_vars
  /\ [][CycleBegins => \A s \in Services : ~InitialInFlight(task', s)]_vars

\* C17: a probe error, missing record, file-sync failure, reload failure or
\* store failure (a rejected store query included) of one service, during its
\* initial probe or a scheduled cycle, never terminates the process, never
\* makes start() fail and never stops the scheduling of later cycles of that
\* or any other service.
C17_FailuresAreContained ==
  /\ \A k \in Chains : starts[k] # "rejected"
  /\ (CycleEnded /\ isRunning) => task[event.s][event.k].pc = "timer"
  /\ \A k \in Chains :
       starts[k] = "awaiting" =>
         \E s \in Services : task[s][k].kind = "initial" /\ task[s][k].pc # "idone"

\* C18: after each cycle that completes while the manager is running exactly
\* one one-shot timer is armed for the service, with the delay "interval" when
\* the probe of that cycle succeeded and "error_delay" when it failed,
\* whatever the outcome of the update protocol.
C18_OneTimerWithProbeDelay ==
  (CycleEnded /\ event.armed) =>
     /\ Cardinality({k \in Chains : task[event.s][k].pc = "timer"}) = 1
     /\ event.delay = IF event.log.probed = "ok" THEN "interval" ELSE "error_delay"

\* A switch of service event.s to its if_failed target has just completed
\* (the startup switch, or a scheduled cycle that ran the whole update).
SwitchedToFallback ==
  /\ event.ended
  /\ event.log.probed = "fail"
  /\ event.log.recUpd = "ok"

\* C19: when a service is switched to an if_failed target that omits the
\* scheme, the applied scheme after the switch and the scheme written to the
\* ProxyRecord equal the scheme applied before the switch and are never
\* undefined, for the startup switch and for scheduled cycles.
C19_OmittedSchemeKeepsApplied ==
  (SwitchedToFallback /\ config[event.s].if_failed.scheme = Undefined) =>
     /\ serviceStates[event.s].currentScheme = event.log.applied0.scheme
     /\ serviceStates[event.s].currentScheme # Undefined
     /\ event.log.kind = "cycle" =>
          db[event.log.pid].forward_scheme = event.log.applied0.scheme

\* Initialize has just run initializeServiceStates over every service.
StartupCompletes == phase = "constructed" /\ phase' = "initialized"

ReloadAt(parts) ==
  {i \in 1..(Len(parts) - 1) : parts[i] = "-s" /\ parts[i + 1] = "reload"}

\* parts with the two words at i, i + 1 replaced by the one word w
ReplacePair(parts, i, w) ==
  SubSeq(parts, 1, i - 1) \o <<w>> \o SubSeq(parts, i + 2, Len(parts))

\* C21: the syntax-check command is the reload command with its reload
\* action "-s reload" replaced by the test flag "-t" ("/usr/sbin/nginx -s
\* reload" gives "/usr/sbin/nginx -t"); a reload command without "-s reload"
\* gets "-t" appended.
C21_TestCommandFromReloadCommand ==
  LET refresh == nginxCmd.nginxRefreshCmd
  IN /\ \A i \in ReloadAt(refresh) :
          ReloadAt(refresh) = {i} =>
            nginxCmd.nginxTestCmd = ReplacePair(refresh, i, "-t")
     /\ ReloadAt(refresh) = {} => nginxCmd.nginxTestCmd = Append(refresh, "-t")

(***************************************************************************)
(* Properties of the ServiceManager (Spec): startup and the update protocol *)
(***************************************************************************)
\* C22: when the proxy syntax self-test fails during initialize(),
\* initialization fails before any monitoring starts: no service state is
\* created, no probe is issued, no ProxyRecord or config file is written, and
\* the process exits (nothing of the program runs afterwards).
C22_SelfTestFailureIsFatal ==
  /\ [](phase = "invalid" =>
          /\ \A s \in Services : serviceStates[s] = NoState
          /\ \A s \in Services, k \in Chains : task[s][k] = NoTask
          /\ \A k \in Chains : starts[k] = "none"
          /\ ~isRunning
          /\ \A s \in Services : initialBackups[s] = <<>>)
  /\ [][phase' = "invalid" =>
          (db' = db /\ files' = files /\ backups' = backups)]_vars
  /\ [][phase # "invalid"]_vars

\* initialize() has thrown 'Nginx configuration is invalid' with a service
\* configured whose record and config file exist.
C22_Witness ==
  /\ phase = "invalid"
  /\ \E s \in Services :
       LET id == findProxyHostByDomain(db, config[s].domain)
       IN id # "" /\ files[id].exists

\* The steps of log L, the history of one switch, ran in the order locate,
\* patch, update of the record, reload, none before its predecessor succeeded.
InProtocolOrder(L) ==
  /\ L.patch # "none" => L.found = "yes"
  /\ L.recUpd # "none" => (L.found = "yes" /\ L.patch = "ok")
  /\ (L.reloads > 0 \/ L.reload # "none") => (L.patch = "ok" /\ L.recUpd = "ok")

\* C23: whenever the system switches a service's target, in a scheduled
\* cycle or in the startup switch to the fallback, the steps run in the order
\* locate ProxyRecord, patch config file, update ProxyRecord, reload: the
\* record is never updated before the patch succeeded, the reload is never
\* invoked before both writes, and a switch that wrote both invokes it.
C23_UpdateProtocolOrder ==
  /\ \A L \in CycleLogs : InProtocolOrder(L)
  /\ (event.ended /\ event.log.recUpd = "ok") => event.log.reloads = 1

\* The patch, the record update and the reload of log L all succeeded.
AllThreeSucceeded(L) == L.patch = "ok" /\ L.recUpd = "ok" /\ L.reload = "ok"

\* C24: the applied target of a service changes only at the end of an update
\* protocol run whose config-file patch, ProxyRecord update and reload all
\* succeeded; when any of the three fails the applied target keeps its value.
C24_AppliedChangesOnlyOnFullSuccess ==
  [][phase = "initialized" =>
       \A s \in Services :
         Applied(serviceStates'[s]) # Applied(serviceStates[s]) =>
           /\ event'.ended
           /\ event'.s = s
           /\ AllThreeSucceeded(event'.log)]_vars

\* The last step completed the last initial probe of a start() call:
\* performInitialHealthChecks resolved and start() went on to the monitoring.
StartCompleted ==
  event.ended /\ event.log.kind = "initial" /\ starts[event.k] = "done"

\* The applied target of s, the ProxyRecord id and the file <id>.conf hold
\* the host and port of target tg.
AllHold(s, id, tg) ==
  /\ serviceStates[s].currentHost = tg.host
  /\ serviceStates[s].currentPort = tg.port
  /\ db[id].forward_host = tg.host
  /\ db[id].forward_port = tg.port
  /\ FileHolds(files[id], tg.host, tg.port)

\* C25: when start() has completed, for every service whose initial probe
\* failed (its ProxyRecord and config file existing) the applied target, the
\* ProxyRecord with the record's numeric id and the config file named by that
\* id all hold the if_failed target; for every service whose initial probe
\* succeeded they hold the original target.
C25_StartupTargetEverywhere ==
  StartCompleted =>
    \A s \in Services :
      LET st == serviceStates[s]
          id == findProxyHostByDomain(db, config[s].domain)
      IN (st.originalConfig # NoTarget /\ id # "" /\ files[id].exists) =>
           AllHold(s, id, IF st.isHealthy THEN st.originalConfig
                          ELSE config[s].if_failed)

(***************************************************************************)
(* Properties of the DatabaseManager (SpecDb)                              *)
(***************************************************************************)
\* The record the last updateProxyHost call names exists.
UpdatedRowExists ==
  dbCall.id \in RecordIds /\ dbCall.before[dbCall.id].present

\* C26: updateProxyHost(id, host, port, scheme) rewrites forward_scheme only
\* when a scheme is provided and leaves it unchanged when the scheme is
\* omitted; in both cases no record other than the one with the given id and
\* no field other than forward host, port and scheme is changed.
C26_UpdateFrame ==
  dbCall.op = "update" =>
    /\ \A id \in RecordIds : id # dbCall.id => db[id] = dbCall.before[id]
    /\ UpdatedRowExists =>
         LET old == dbCall.before[dbCall.id]
             new == db[dbCall.id]
         IN /\ new.forward_scheme =
                 IF dbCall.scheme = Undefined THEN old.forward_scheme
                 ELSE dbCall.scheme
            /\ new.domain_names = old.domain_names
            /\ new.is_deleted = old.is_deleted
            /\ new.present = old.present

\* updateProxyHost without a scheme has rewritten host and port of a record
\* that exists.
C26_Witness ==
  /\ dbCall.op = "update"
  /\ dbCall.scheme = Undefined
  /\ UpdatedRowExists
  /\ db[dbCall.id].forward_host # dbCall.before[dbCall.id].forward_host
  /\ db[dbCall.id].forward_scheme = "http"

\* C27: updateProxyHost called with an id that matches no ProxyRecord (zero
\* rows affected) reports not-success (resolves false, without throwing) and
\* changes no record.
C27_ZeroRowsIsNotSuccess ==
  (dbCall.op = "update" /\ ~UpdatedRowExists) =>
    (~dbCall.ok /\ db = dbCall.before)

\* The non-deleted records of table d whose domain-name set contains domain.
RecordsOfDomain(d, domain) ==
  {id \in RecordIds :
     /\ d[id].present
     /\ d[id].is_deleted = 0
     /\ \E i \in 1..Len(d[id].domain_names) : d[id].domain_names[i] = domain}

\* C28: findProxyHostByDomain(d) returns a non-deleted ProxyRecord exactly
\* when d is a member of that record's domain-name set, for records with one
\* domain and with several domains, and not-found otherwise; it never returns
\* a record whose domain set does not contain d.
C28_FindByDomainMembership ==
  dbCall.op = "find" =>
    LET members == RecordsOfDomain(dbCall.before, dbCall.domain)
    IN /\ dbCall.found = "" <=> members = {}
       /\ dbCall.found # "" => dbCall.found \in members

(***************************************************************************)
(* Properties of consecutive cycles (SpecCycles)                           *)
(***************************************************************************)
\* L is a cycle whose probe has completed with the same outcome as the
\* service's earlier cycle that ended with the update failure end.
SameOutcomeAfter(L, end) ==
  /\ L.kind = "cycle"
  /\ L.prev.end = end
  /\ L.probed # "none"
  /\ L.probed = L.prev.probed

\* C29: after a cycle in which the file patch and the record update
\* succeeded but the reload failed, later cycles of that service with the
\* same probe outcome perform no patch, no record update and no reload; the
\* reload is attempted again only in a cycle whose desired target differs
\* from the applied target.
C29_NoRetryAfterReloadFailure ==
  \A L \in CycleLogs :
    SameOutcomeAfter(L, "reloadfail") =>
      /\ L.found = "none"
      /\ L.patch = "none"
      /\ L.recUpd = "none"
      /\ L.reloads = 0

\* C30: after a cycle whose config-file patch failed, the next scheduled
\* cycle of that service with the same probe outcome again finds an update
\* required and attempts the same transition (same old and new target).
C30_PatchRetriedNextCycle ==
  \A L \in CycleLogs :
    SameOutcomeAfter(L, "patchfail") =>
      /\ L.pc = "find" \/ L.found # "none"
      /\ L.applied0 = L.prev.old
      /\ L.found = "yes" => L.new = L.prev.new

(***************************************************************************)
(* Properties of the ServiceManager (Spec): a cycle and the rest           *)
(***************************************************************************)
\* The step ends the cycle of chain k of service s whose lookup of the
\* record found none.
NoRecordFound(s, k) ==
  /\ task[s][k].pc = "find"
  /\ event'.ended /\ event'.s = s /\ event'.k = k
  /\ event'.log.found = "no"

\* C31: when an update is required and no record matches the service's
\* domain, the cycle writes no config file (and no backup), updates no
\* record, reloads nothing and leaves the applied target as it was; while
\* the manager is running the timer of the service's next cycle is set; the
\* states, cycles and timers of the other services are left alone.
C31_NoRecordAbortsCycle ==
  [][\A s \in Services, k \in Chains :
       NoRecordFound(s, k) =>
         /\ files' = files /\ backups' = backups /\ db' = db
         /\ event'.log.patch = "none" /\ event'.log.recUpd = "none"
         /\ event'.log.reloads = 0
         /\ Applied(serviceStates'[s]) = Applied(serviceStates[s])
         /\ isRunning => task'[s][k].pc = "timer" /\ timers'[s] = k
         /\ \A s2 \in Services \ {s} :
              /\ serviceStates'[s2] = serviceStates[s2]
              /\ task'[s2] = task[s2]
              /\ timers'[s2] = timers[s2]]_vars

\* A cycle of one of two services ended on a missing record and its timer
\* is set.
C31_Witness ==
  /\ Cardinality(Services) = 2
  /\ event.ended /\ event.log.kind = "cycle" /\ event.log.found = "no"
  /\ event.armed /\ task[event.s][event.k].pc = "timer"

\* The records that list the service's domain, and their config files.
RecordsOf(s) ==
  {id \in RecordIds :
     db[id].present /\ \E i \in DOMAIN db[id].domain_names :
                          db[id].domain_names[i] = config[s].domain}

\* The step is one of a cycle in flight of service s.
CycleStep(s) ==
  \E k \in Chains :
    /\ task[s][k].kind = "cycle"
    /\ task[s][k].pc \in InFlightPcs
    /\ task'[s][k] # task[s][k]

\* C32: a step of a cycle of service A (probe, decision, patch, record
\* update, reload) leaves the runtime state of every other service B, the
\* records of B's domain and their config files as they were; the domains
\* of the configured services are distinct.
C32_CycleLeavesOtherServices ==
  [][\A A \in Services, B \in Services :
       (A # B /\ config[A].domain # config[B].domain /\ CycleStep(A)) =>
         /\ serviceStates'[B] = serviceStates[B]
         /\ \A id \in RecordsOf(B) : db'[id] = db[id] /\ files'[id] = files[id]]_vars

\* A cycle of one service has just completed its patch and record update
\* while a cycle of the other service, which has a record, is in its update.
C32_Witness ==
  /\ event.ended /\ event.log.kind = "cycle"
  /\ event.log.patch = "ok" /\ event.log.recUpd = "ok"
  /\ \E B \in Services \ {event.s} :
       /\ RecordsOf(B) # {}
       /\ \E k \in Chains : task[B][k].pc \in {"find", "dbupd", "reload"}

(***************************************************************************)
(* Properties of consecutive cycles (SpecCycles), continued                *)
(***************************************************************************)
\* No step of cycle L failed: no update was required, or the lookup, the
\* patch, the record update and the reload all succeeded.
NoStepFailed(L) ==
  \/ L.found = "none"
  \/ L.found = "yes" /\ L.patch = "ok" /\ L.recUpd = "ok" /\ L.reload = "ok"

\* The step completes a cycle of service s in which no step failed, the
\* first cycle to end after one whose patch succeeded and whose record
\* update failed.
FirstCleanCycleAfterRecordFailure(s) ==
  /\ lastCycle[s].end = "recfail"
  /\ event'.ended /\ event'.s = s /\ event'.log.kind = "cycle"
  /\ NoStepFailed(event'.log)

\* Service s has a record and its config file exists.
Healable(s) ==
  LET id == findProxyHostByDomain(db, config[s].domain)
  IN id # "" /\ files[id].exists

\* The applied target of s, its record and its config file hold the host and
\* port of the target desired in the cycle the last step completed.
HealedAtEnd(s) ==
  Healable(s) =>
    AllHold(s, findProxyHostByDomain(db, config[s].domain), event.log.desired)

\* C33: after a cycle whose config-file patch succeeded and whose record
\* update failed, the next cycle of the service in which no step fails,
\* whatever its probe outcome, leaves the config file, the ProxyRecord and
\* the applied target all holding the host and port of the target desired
\* for that cycle's probe outcome.
C33_HealedAfterRecordFailure ==
  [][\A s \in Services :
       FirstCleanCycleAfterRecordFailure(s) => HealedAtEnd(s)']_vars

(***************************************************************************)
(* Properties of the runs of the process (SpecRestart)                     *)
(***************************************************************************)
\* The target the record of service s held when the first run found it,
\* before any failover: the first initial backup of the service.
PrimaryTarget(s) == OriginalOf(initialBackups[s][1])

\* C34: startup starts a service from its original state: in every run,
\* also one that begins while the service's ProxyRecord holds the fallback
\* a previous run wrote, the original target initialize() captures is the
\* primary target the record held before the failover (so that a later
\* successful probe, whose desired target is the original, returns the
\* service to the primary).
C34_StartupFromOriginalState ==
  \A s \in Services :
    (phase = "initialized" /\ serviceStates[s].originalConfig # NoTarget) =>
       serviceStates[s].originalConfig = PrimaryTarget(s)

(***************************************************************************)
(* Properties of the SnapshotManager (SpecSnap), continued                 *)
(***************************************************************************)
\* The step is a createSnapshot call that returns an id.
CreateReturns ==
  /\ snap'.made = snap.made + 1
  /\ snap'.last.op = "create" /\ snap'.last.ok

\* C35: over any sequence of createSnapshot and deleteSnapshot calls, the id
\* a createSnapshot returns is greater than every id an earlier
\* createSnapshot returned, and no snapshot file is stored under it yet.
C35_SnapshotIdsMonotonic ==
  [][CreateReturns =>
       /\ \A id \in snap.issued : snap'.last.id > id
       /\ snap.dir[snap'.last.id] = 0]_vars

(***************************************************************************)
(* Properties of NginxConfigUpdater.updateProxyConfig (SpecNginx),         *)
(* continued                                                               *)
(***************************************************************************)
\* Token t names exactly the old host and the old port, as far as its idiom
\* names a host or a port.
ExactlyOld(t, oldHost, oldPort) ==
  \/ t.k = "set_server" /\ t.h = oldHost
  \/ t.k = "set_port" /\ t.p = oldPort
  \/ t.k \in {"server_semi", "server_bare"} /\ t.h = oldHost /\ t.p = oldPort

\* C36: replaceUpstreamConfig replaces only the tokens whose host and port
\* are exactly the old values: after a successful updateProxyConfig a
\* `set $server`, `set $port` or `server <host>:<port>` token with another
\* host, or with a port other than oldPort (one that only begins with the
\* digits of oldPort too), is as it was, and so is the rest of the text.
C36_OnlyExactTokensReplaced ==
  (lastPatch.n > 0 /\ lastPatch.ok) =>
    LET pre == lastPatch.pre.content
        post == files[lastPatch.key].content
    IN /\ Len(post) = Len(pre)
       /\ \A i \in 1..Len(pre) :
            ~ExactlyOld(pre[i], lastPatch.oldHost, lastPatch.oldPort)
              => post[i] = pre[i]

(***************************************************************************)
(* Properties of the ServiceManager (Spec): the scheme of an update        *)
(***************************************************************************)
\* The last step completed a cycle whose patch, record update and reload
\* succeeded and whose new scheme is not the scheme applied before.
SchemeChangingUpdate ==
  /\ CycleEnded
  /\ AllThreeSucceeded(event.log)
  /\ event.log.new.scheme # event.log.applied0.scheme

\* The forward scheme idioms of file f hold scheme.
FileHoldsScheme(f, scheme) ==
  \A i \in 1..Len(f.content) :
    f.content[i].k = "set_scheme" => f.content[i].h = scheme

\* C37: after a successful update whose new scheme differs from the old
\* scheme, the forward scheme of the config file is the new scheme, and so
\* are the forward_scheme of the ProxyRecord and the applied scheme.
C37_FileSchemeFollowsUpdate ==
  SchemeChangingUpdate =>
    /\ FileHoldsScheme(files[event.log.pid], event.log.new.scheme)
    /\ db[event.log.pid].forward_scheme = event.log.new.scheme
    /\ serviceStates[event.s].currentScheme = event.log.new.scheme

(***************************************************************************)
(* Properties of NginxConfigUpdater.updateProxyConfig (SpecNginx): a file  *)
(* without the old values                                                  *)
(***************************************************************************)
\* No token of the text names the old host and none names the old port.
NoOccurrence(content, oldHost, oldPort) ==
  \A i \in 1..Len(content) :
    /\ content[i].k \in {"set_server", "server_semi", "server_bare"}
         => content[i].h # oldHost
    /\ content[i].k \in {"set_port", "server_semi", "server_bare"}
         => content[i].p # oldPort

\* C38: updateProxyConfig on an existing file in which neither the old host
\* nor the old port occurs returns success (no file system call failing),
\* has written a backup of the file and leaves its content as it was; and
\* updateProxyConfig returns failure only for a missing file or a failed
\* file system call.
C38_NoOccurrencePatchSucceeds ==
  lastPatch.n > 0 =>
    /\ (/\ lastPatch.pre.exists
        /\ lastPatch.io = "ok"
        /\ NoOccurrence(lastPatch.pre.content, lastPatch.oldHost, lastPatch.oldPort))
         => /\ lastPatch.ok
            /\ files[lastPatch.key] = lastPatch.pre
            /\ lastPatch.pre.content \in backups[lastPatch.key]
    /\ ~lastPatch.ok => (~lastPatch.pre.exists \/ lastPatch.io # "ok")

\* A successful call on a file whose upstream line has another host and a
\* port that begins with the digits of the old port.
C38_Witness ==
  /\ lastPatch.n > 0 /\ lastPatch.ok
  /\ NoOccurrence(lastPatch.pre.content, lastPatch.oldHost, lastPatch.oldPort)
  /\ \E i \in 1..Len(lastPatch.pre.content) :
       /\ lastPatch.pre.content[i].k \in {"server_semi", "server_bare"}
       /\ DigitsAfter(lastPatch.pre.content[i].p, lastPatch.oldPort) > 0
  /\ lastPatch.newHost # lastPatch.oldHost

(***************************************************************************)
(* Properties of the manager that is never stopped (SpecLive)              *)
(***************************************************************************)
\* start() has completed: the monitoring of every service has begun.
MonitoringBegun(s) == s \in Services /\ starts[1] = "done"

\* The last step completed a cycle of service s.
CycleCompleted(s) == event.ended /\ event.s = s /\ event.log.kind = "cycle"

\* The step completes a cycle of chain k of service s.
CompletesCycle(s, k) ==
  /\ event'.ended /\ event'.s = s /\ event'.k = k
  /\ event'.log.kind = "cycle"

\* C39: once start() has begun the monitoring and the manager is never
\* stopped, every service completes a cycle again and again (each probe
\* ends after its bounded attempts and each update step returns), and every
\* step that completes a cycle, whatever the probe outcome and whichever
\* update step failed or threw, sets the timer of the service's next cycle.
C39_ProbedForever ==
  /\ \A s \in AllServices : MonitoringBegun(s) ~> CycleCompleted(s)
  /\ [][\A s \in Services, k \in Chains :
          (CompletesCycle(s, k) /\ isRunning)
             => task'[s][k].pc = "timer" /\ timers'[s] = k]_vars

\* A cycle of a service that failed at its record lookup has completed after
\* at least one earlier cycle, and its timer is set.
C39_Witness ==
  /\ event.ended /\ event.log.kind = "cycle" /\ event.armed
  /\ event.log.found = "error"
  /\ serviceStates[event.s].consecutiveFailures >= 2
  /\ task[event.s][event.k].pc = "timer"
====
